---- MODULE Spec2Model ----
(***************************************************************************)
(* Retailer Reward Program: the point calculator (calculateRewardPoints)   *)
(* and the reward aggregator (calculateUserRewards) of utils/              *)
(* calculateRewards.js, with the JavaScript built-ins they rely on         *)
(* (isNaN, Math.floor, String.split, parseInt, Date).                      *)
(*                                                                         *)
(* JavaScript values are modelled as records:                              *)
(*   a number        [nan |-> BOOLEAN, v |-> Int]  (NaN has nan = TRUE)    *)
(*   a string        a sequence of one-character strings                   *)
(*   a price value   [t |-> type tag, c |-> cents, s |-> string]           *)
(*   a Date or null  [k |-> "null" | "date" | "invalid", t |-> hours]      *)
(*                   t counts local-time hours since 1970-01-01 00:00      *)
(***************************************************************************)
EXTENDS Integers, Sequences, FiniteSets, TLC

VARIABLES
    pc,            \* "ready" before the modelled call, "done" after it
    price,         \* the argument of calculateRewardPoints
    price2,        \* the argument of a second call of calculateRewardPoints
    points,        \* the value returned for price
    points2,       \* the value returned for price2
    transactions,  \* the transactions handed to calculateUserRewards
    start,         \* its start argument: a Date or null
    end,           \* its end argument: a Date or null
    userRewards,   \* the userRewards array it returns
    totalRewards,  \* the totalRewards array it returns
    included,      \* per transaction, whether the reducer took the branch of line 107
    threw,         \* whether the call ended with a TypeError instead of returning
    refs,          \* the identities of the records of the arguments and the results
    loading,       \* App: the loading state
    error,         \* App: the error state, a message or null
    pending,       \* App: whether the recalculation effect is scheduled
    response,      \* App: what the fetch of the feed is answered with
    filteredTransactions,  \* TransactionTable: the transactions it lists
    order,         \* TransactionTable: the direction of the sort
    orderBy,       \* TransactionTable: the column of the sort
    currentPage,   \* TransactionTable: the page shown, from 1
    rewardsOrder,  \* UserRewardsTable: its order state
    rewardsOrderBy,  \* UserRewardsTable: its orderBy state
    page,          \* UserRewardsTable: the page shown, from 0
    rowsPerPage,   \* UserRewardsTable: the rows of a page
    filteredUserRewards  \* UserRewardsTable: the monthly rewards it keeps

vars == <<pc, price, price2, points, points2,
          transactions, start, end, userRewards, totalRewards, included, threw,
          refs, loading, error, pending, response, filteredTransactions,
          order, orderBy, currentPage, rewardsOrder, rewardsOrderBy, page,
          rowsPerPage, filteredUserRewards>>

\* the state of the two tables that sort and page
tables == <<order, orderBy, currentPage, rewardsOrder, rewardsOrderBy, page,
            rowsPerPage, filteredUserRewards>>

(***************************************************************************)
(* Bounds of the model.                                                    *)
(***************************************************************************)
\* whole dollars of the prices enumerated for the point calculator
MaxDollar == 121
\* longest string handed to the point calculator as a price
MaxStrLen == 3
\* longest transaction list of the range-filter specification
MaxFilterTx == 2
\* longest transaction list of the grouping specification
MaxTx == 3

(***************************************************************************)
(* JavaScript numbers.                                                     *)
(***************************************************************************)
Num(n) == [nan |-> FALSE, v |-> n]

NaN == [nan |-> TRUE, v |-> 0]

\* a === b on numbers: NaN is equal to nothing, itself included
StrictEq(a, b) == ~a.nan /\ ~b.nan /\ a.v = b.v

\* a > b, a < b, a >= b, a <= b on numbers: false as soon as one side is NaN
JsGt(a, b) == ~a.nan /\ ~b.nan /\ a.v > b.v

JsLt(a, b) == ~a.nan /\ ~b.nan /\ a.v < b.v

JsGe(a, b) == ~a.nan /\ ~b.nan /\ a.v >= b.v

JsLe(a, b) == ~a.nan /\ ~b.nan /\ a.v <= b.v

\* a + n for an integer literal n: NaN stays NaN
JsAdd(a, n) == IF a.nan THEN NaN ELSE Num(a.v + n)

(***************************************************************************)
(* JavaScript strings: sequences of characters.                            *)
(***************************************************************************)
Digits == <<"0", "1", "2", "3", "4", "5", "6", "7", "8", "9">>

IsDigit(ch) == \E i \in 1..Len(Digits) : Digits[i] = ch

DigitVal(ch) ==
    CASE ch = "0" -> 0 [] ch = "1" -> 1 [] ch = "2" -> 2 [] ch = "3" -> 3
      [] ch = "4" -> 4 [] ch = "5" -> 5 [] ch = "6" -> 6 [] ch = "7" -> 7
      [] ch = "8" -> 8 [] ch = "9" -> 9

IsSpace(ch) == ch = " "

RECURSIVE TrimLeft(_)
TrimLeft(s) ==
    IF s # <<>> /\ IsSpace(Head(s)) THEN TrimLeft(Tail(s)) ELSE s

RECURSIVE TrimRight(_)
TrimRight(s) ==
    IF s # <<>> /\ IsSpace(s[Len(s)]) THEN TrimRight(SubSeq(s, 1, Len(s) - 1)) ELSE s

\* the longest prefix of s made of decimal digits
RECURSIVE DigitPrefix(_)
DigitPrefix(s) ==
    IF s # <<>> /\ IsDigit(Head(s)) THEN <<Head(s)>> \o DigitPrefix(Tail(s)) ELSE <<>>

\* the value of a non-empty sequence of decimal digits
RECURSIVE DigitsValue(_)
DigitsValue(s) ==
    IF s = <<>> THEN 0 ELSE DigitsValue(SubSeq(s, 1, Len(s) - 1)) * 10 + DigitVal(s[Len(s)])

\* parseInt(s, 10): leading white space is skipped, then the longest run of
\* digits is read and what follows is ignored; NaN when there is no digit
ParseInt(s) ==
    LET d == DigitPrefix(TrimLeft(s))
    IN  IF d = <<>> THEN NaN ELSE Num(DigitsValue(d))

\* a variant of StringToNumber that reads a leading number and ignores what
\* follows, as parseFloat does
StringToNumberLenient(s) == ParseInt(s)

\* Number(s), the conversion isNaN and Math.floor apply to a string: white
\* space is trimmed on both sides, the empty string is 0, a run of digits
\* is its value, and anything else is NaN
StringToNumber(s) ==
    LET t == TrimRight(TrimLeft(s))
    IN  IF t = <<>> THEN Num(0)
        ELSE IF DigitPrefix(t) = t THEN Num(DigitsValue(t))
        ELSE NaN

\* s.split(sep): the pieces of s between the occurrences of the character
\* sep; piece is the piece being read at position i
RECURSIVE SplitFrom(_, _, _, _)
SplitFrom(s, sep, i, piece) ==
    IF i > Len(s) THEN <<piece>>
    ELSE IF s[i] = sep THEN <<piece>> \o SplitFrom(s, sep, i + 1, <<>>)
    ELSE SplitFrom(s, sep, i + 1, Append(piece, s[i]))

Split(s, sep) == SplitFrom(s, sep, 1, <<>>)

(***************************************************************************)
(* The point calculator.                                                   *)
(***************************************************************************)
\* a price as the JSON feed can carry it: a number in cents, or a value of
\* another type
NumberPrice(cents) == [t |-> "number", c |-> cents, s |-> <<>>]

StringPrice(str) == [t |-> "string", c |-> 0, s |-> str]

OtherPrice(tag) == [t |-> tag, c |-> 0, s |-> <<>>]

\* Number(price) in cents, the conversion behind isNaN(price) and
\* Math.floor(price)
ToNumber(p) ==
    CASE p.t = "number"    -> Num(p.c)
      [] p.t = "NaN"       -> NaN
      [] p.t = "undefined" -> NaN
      [] p.t = "object"    -> NaN
      [] p.t = "null"      -> Num(0)
      [] p.t = "false"     -> Num(0)
      [] p.t = "true"      -> Num(100)
      [] p.t = "string"    -> LET n == StringToNumber(p.s)
                              IN  IF n.nan THEN NaN ELSE Num(n.v * 100)

isNaN(p) == ToNumber(p).nan

\* Math.floor(price), in whole dollars
MathFloor(p) == ToNumber(p).v \div 100

\* a variant that rounds the price to the nearest dollar (Math.round)
calculateRewardPointsRounded(p) ==
    IF isNaN(p) THEN 0
    ELSE LET wholePrice == (ToNumber(p).v + 50) \div 100
         IN  IF wholePrice > 100 THEN (wholePrice - 100) * 2 + 50
             ELSE IF wholePrice > 50 THEN (wholePrice - 50) * 1
             ELSE 0

\* a variant that leaves out the 50 points of the first 100 dollars
calculateRewardPointsNoBase(p) ==
    IF isNaN(p) THEN 0
    ELSE LET wholePrice == MathFloor(p)
         IN  IF wholePrice > 100 THEN (wholePrice - 100) * 2
             ELSE IF wholePrice > 50 THEN (wholePrice - 50) * 1
             ELSE 0

calculateRewardPoints(p) ==
    IF isNaN(p) THEN 0
    ELSE LET wholePrice == MathFloor(p)
         IN  IF wholePrice > 100 THEN (wholePrice - 100) * 2 + 50
             ELSE IF wholePrice > 50 THEN (wholePrice - 50) * 1
             ELSE 0

(***************************************************************************)
(* JavaScript Date, in local time.                                         *)
(***************************************************************************)
NullDate == [k |-> "null", t |-> 0]

InvalidDate == [k |-> "invalid", t |-> 0]

\* days from 1970-01-01 to the first day of month m (1..12) of year y
DaysFromCivil(y, m) ==
    LET yy  == IF m <= 2 THEN y - 1 ELSE y
        era == yy \div 400
        yoe == yy - era * 400
        mp  == IF m > 2 THEN m - 3 ELSE m + 9
        doy == (153 * mp + 2) \div 5
        doe == yoe * 365 + yoe \div 4 - yoe \div 100 + doy
    IN  era * 146097 + doe - 719468

\* the calendar date (year, month 1..12, day) that lies z days after 1970-01-01
CivilFromDays(z) ==
    LET zz  == z + 719468
        era == zz \div 146097
        doe == zz - era * 146097
        yoe == (doe - doe \div 1460 + doe \div 36524 - doe \div 146096) \div 365
        doy == doe - (365 * yoe + yoe \div 4 - yoe \div 100)
        mp  == (5 * doy + 2) \div 153
        d   == doy - (153 * mp + 2) \div 5 + 1
        m   == IF mp < 10 THEN mp + 3 ELSE mp - 9
        y   == yoe + era * 400 + (IF m <= 2 THEN 1 ELSE 0)
    IN  [year |-> y, month |-> m, day |-> d]

\* new Date(year, monthIndex, day): local midnight of that day; a month index
\* outside 0..11 or a day outside the month carries over into the
\* neighbouring months, a year in 0..99 means 1900 + year, and a NaN
\* argument gives an Invalid Date
NewDate(year, monthIndex, day) ==
    IF year.nan \/ monthIndex.nan \/ day.nan THEN InvalidDate
    ELSE LET y  == IF year.v >= 0 /\ year.v <= 99 THEN 1900 + year.v ELSE year.v
             tm == y * 12 + monthIndex.v
         IN  [k |-> "date",
              t |-> (DaysFromCivil(tm \div 12, ((tm % 12) + 1)) + day.v - 1) * 24]

\* a Date that shows the given calendar day and hour in local time (what a
\* date picker hands over)
DateAt(y, m, d, h) == [k |-> "date", t |-> (DaysFromCivil(y, m) + d - 1) * 24 + h]

\* new Date(d) for a Date d: a copy with the same time value
CopyDate(d) == d

\* getFullYear(), getMonth() (0-indexed) and getDate(); NaN on an Invalid Date
getFullYear(d) == IF d.k = "date" THEN Num(CivilFromDays(d.t \div 24).year) ELSE NaN

getMonth(d) == IF d.k = "date" THEN Num(CivilFromDays(d.t \div 24).month - 1) ELSE NaN

getDate(d) == IF d.k = "date" THEN Num(CivilFromDays(d.t \div 24).day) ELSE NaN

(***************************************************************************)
(* The reward aggregator.                                                  *)
(***************************************************************************)
\* the date field of a transaction: a string, or a value of another type
StringDate(str) == [t |-> "string", s |-> str]

MissingDate == [t |-> "undefined", s |-> <<>>]

\* a date field that holds null, and one that holds a number
NullField == [t |-> "null", s |-> <<>>]

NumberDate == [t |-> "number", s |-> <<>>]

\* parseInt(dateParts[i], 10); dateParts[i] is undefined past the last piece
\* and parseInt(undefined) is NaN
DatePart(dateParts, i) ==
    IF i <= Len(dateParts) THEN ParseInt(dateParts[i]) ELSE NaN

\* lines 70-74: year, month (0-indexed) and day read from the date string,
\* and the Date built from them
ParseDate(tx) ==
    LET dateParts == Split(tx.date.s, "-")
        year      == DatePart(dateParts, 1)
        month     == JsAdd(DatePart(dateParts, 2), -1)
        day       == DatePart(dateParts, 3)
    IN  [year |-> year, month |-> month, day |-> day,
         transactionDate |-> NewDate(year, month, day)]

\* a variant that compares the time values of the two Dates
isAfterOrEqualStartByTime(transactionDate, st) ==
    \/ st.k = "null"
    \/ (transactionDate.k = "date" /\ st.k = "date" /\ transactionDate.t >= st.t)

isAfterOrEqualStart(transactionDate, st) ==
    LET startDateObj     == IF st.k # "null" THEN CopyDate(st) ELSE NullDate
        transactionYear  == getFullYear(transactionDate)
        transactionMonth == getMonth(transactionDate)
        transactionDay   == getDate(transactionDate)
        startYear        == getFullYear(startDateObj)
        startMonth       == getMonth(startDateObj)
        startDay         == getDate(startDateObj)
    IN  \/ startDateObj.k = "null"
        \/ JsGt(transactionYear, startYear)
        \/ (StrictEq(transactionYear, startYear) /\ JsGt(transactionMonth, startMonth))
        \/ (/\ StrictEq(transactionYear, startYear)
            /\ StrictEq(transactionMonth, startMonth)
            /\ JsGe(transactionDay, startDay))

\* a variant without the test for an absent end
isBeforeOrEqualEndNoNull(transactionDate, en) ==
    LET transactionYear  == getFullYear(transactionDate)
        transactionMonth == getMonth(transactionDate)
        transactionDay   == getDate(transactionDate)
        endYear          == getFullYear(en)
        endMonth         == getMonth(en)
        endDay           == getDate(en)
    IN  \/ JsLt(transactionYear, endYear)
        \/ (StrictEq(transactionYear, endYear) /\ JsLt(transactionMonth, endMonth))
        \/ (/\ StrictEq(transactionYear, endYear)
            /\ StrictEq(transactionMonth, endMonth)
            /\ JsLe(transactionDay, endDay))

isBeforeOrEqualEnd(transactionDate, en) ==
    LET endDateObj       == IF en.k # "null" THEN CopyDate(en) ELSE NullDate
        transactionYear  == getFullYear(transactionDate)
        transactionMonth == getMonth(transactionDate)
        transactionDay   == getDate(transactionDate)
        endYear          == getFullYear(endDateObj)
        endMonth         == getMonth(endDateObj)
        endDay           == getDate(endDateObj)
    IN  \/ endDateObj.k = "null"
        \/ JsLt(transactionYear, endYear)
        \/ (StrictEq(transactionYear, endYear) /\ JsLt(transactionMonth, endMonth))
        \/ (/\ StrictEq(transactionYear, endYear)
            /\ StrictEq(transactionMonth, endMonth)
            /\ JsLe(transactionDay, endDay))

\* acc.findIndex(...) of lines 108-113, 1-based, 0 when no record matches
existingUserIndex(acc, customerId, month, year) ==
    LET hits == {i \in 1..Len(acc) :
                    /\ acc[i].customerId = customerId
                    /\ StrictEq(acc[i].month, JsAdd(month, 1))
                    /\ StrictEq(acc[i].year, year)}
    IN  IF hits = {} THEN 0 ELSE CHOOSE i \in hits : \A j \in hits : i <= j

\* a variant that assigns the points of the transaction where the code adds
\* them
AddRewardOverwrite(acc, tx, month, year) ==
    LET i == existingUserIndex(acc, tx.customerId, month, year)
    IN  IF i > 0
        THEN [acc EXCEPT ![i].totalPoints = tx.rewardPoints]
        ELSE Append(acc, [customerId  |-> tx.customerId,
                          name        |-> tx.name,
                          month       |-> JsAdd(month, 1),
                          year        |-> year,
                          totalPoints |-> tx.rewardPoints])

\* a variant that also takes over the name of each later transaction
AddRewardRename(acc, tx, month, year) ==
    LET i == existingUserIndex(acc, tx.customerId, month, year)
    IN  IF i > 0
        THEN [acc EXCEPT ![i].totalPoints = @ + tx.rewardPoints, ![i].name = tx.name]
        ELSE Append(acc, [customerId  |-> tx.customerId,
                          name        |-> tx.name,
                          month       |-> JsAdd(month, 1),
                          year        |-> year,
                          totalPoints |-> tx.rewardPoints])

\* a variant that moves the record of the key to the end when it adds to it
AddRewardMoved(acc, tx, month, year) ==
    LET i == existingUserIndex(acc, tx.customerId, month, year)
    IN  IF i > 0
        THEN Append(SubSeq(acc, 1, i - 1) \o SubSeq(acc, i + 1, Len(acc)),
                    [acc[i] EXCEPT !.totalPoints = @ + tx.rewardPoints])
        ELSE Append(acc, [customerId  |-> tx.customerId,
                          name        |-> tx.name,
                          month       |-> JsAdd(month, 1),
                          year        |-> year,
                          totalPoints |-> tx.rewardPoints])

\* lines 107-126: what the reducer does with a transaction that is in range
AddReward(acc, tx, month, year) ==
    LET i == existingUserIndex(acc, tx.customerId, month, year)
    IN  IF i > 0
        THEN [acc EXCEPT ![i].totalPoints = @ + tx.rewardPoints]
        ELSE Append(acc, [customerId  |-> tx.customerId,
                          name        |-> tx.name,
                          month       |-> JsAdd(month, 1),
                          year        |-> year,
                          totalPoints |-> tx.rewardPoints])

\* one call of the reducer of lines 69-129; the accumulator is paired with
\* the record of which transactions took the branch of line 107
RewardsStep(r, tx, st, en) ==
    LET d       == ParseDate(tx)
        inRange == /\ isAfterOrEqualStart(d.transactionDate, st)
                   /\ isBeforeOrEqualEnd(d.transactionDate, en)
    IN  [acc      |-> IF inRange THEN AddReward(r.acc, tx, d.month, d.year) ELSE r.acc,
         included |-> Append(r.included, inRange)]

\* transactions.reduce(..., []) over the first n transactions
RECURSIVE Rewards(_, _, _, _)
Rewards(txs, n, st, en) ==
    IF n = 0 THEN [acc |-> <<>>, included |-> <<>>]
    ELSE RewardsStep(Rewards(txs, n - 1, st, en), txs[n], st, en)

(***************************************************************************)
(* The totals: a plain object used as a map from name to points.           *)
(* The object is the sequence of its own properties in creation order,     *)
(* each [key, num, v]: the number v when num is TRUE, and otherwise a      *)
(* string (what += makes of a non-number).                                 *)
(***************************************************************************)
\* the properties every plain object inherits from Object.prototype
ObjectPrototypeKeys ==
    {<<"c", "o", "n", "s", "t", "r", "u", "c", "t", "o", "r">>,
     <<"h", "a", "s", "O", "w", "n", "P", "r", "o", "p", "e", "r", "t", "y">>,
     <<"i", "s", "P", "r", "o", "t", "o", "t", "y", "p", "e", "O", "f">>,
     <<"p", "r", "o", "p", "e", "r", "t", "y", "I", "s", "E", "n", "u", "m", "e", "r", "a", "b", "l", "e">>,
     <<"t", "o", "L", "o", "c", "a", "l", "e", "S", "t", "r", "i", "n", "g">>,
     <<"t", "o", "S", "t", "r", "i", "n", "g">>,
     <<"v", "a", "l", "u", "e", "O", "f">>,
     <<"_", "_", "d", "e", "f", "i", "n", "e", "G", "e", "t", "t", "e", "r", "_", "_">>,
     <<"_", "_", "d", "e", "f", "i", "n", "e", "S", "e", "t", "t", "e", "r", "_", "_">>,
     <<"_", "_", "l", "o", "o", "k", "u", "p", "G", "e", "t", "t", "e", "r", "_", "_">>,
     <<"_", "_", "l", "o", "o", "k", "u", "p", "S", "e", "t", "t", "e", "r", "_", "_">>,
     <<"_", "_", "p", "r", "o", "t", "o", "_", "_">>}

ProtoKey == <<"_", "_", "p", "r", "o", "t", "o", "_", "_">>

\* the own property of obj named key: its position, 0 when there is none
OwnIndex(obj, key) ==
    IF \E i \in 1..Len(obj) : obj[i].key = key
    THEN CHOOSE i \in 1..Len(obj) : obj[i].key = key
    ELSE 0

\* whether obj[key] is truthy: an own number other than 0, an own string, or
\* an inherited function or object
Truthy(obj, key) ==
    LET i == OwnIndex(obj, key)
    IN  IF i > 0 THEN (obj[i].num => obj[i].v # 0) ELSE key \in ObjectPrototypeKeys

\* a variant that opens a new entry for every monthly record, without
\* looking its name up
TotalsStepNoLookup(obj, reward) ==
    Append(obj, [key |-> reward.name, num |-> TRUE, v |-> reward.totalPoints])

\* a variant that keeps a single running total, under the first name seen
TotalsStepSingleRow(obj, reward) ==
    IF obj = <<>>
    THEN <<[key |-> reward.name, num |-> TRUE, v |-> reward.totalPoints]>>
    ELSE [obj EXCEPT ![1].v = @ + reward.totalPoints]

\* the body of the forEach of lines 132-138 for one monthly record
TotalsStep(obj, reward) ==
    LET i == OwnIndex(obj, reward.name)
    IN  IF Truthy(obj, reward.name)
        THEN IF i > 0
             THEN IF obj[i].num
                  THEN [obj EXCEPT ![i].v = @ + reward.totalPoints]
                  ELSE obj
             ELSE IF reward.name = ProtoKey
                  THEN obj
                  ELSE Append(obj, [key |-> reward.name, num |-> FALSE, v |-> 0])
        ELSE IF i > 0
             THEN [obj EXCEPT ![i].v = reward.totalPoints]
             ELSE Append(obj, [key |-> reward.name, num |-> TRUE,
                               v |-> reward.totalPoints])

\* rewards.forEach(...) over the first n monthly records, from an empty object
RECURSIVE totalRewardPoints(_, _)
totalRewardPoints(rewards, n) ==
    IF n = 0 THEN <<>> ELSE TotalsStep(totalRewardPoints(rewards, n - 1), rewards[n])

\* whether a property key is an array index ("0", "7", "10", ...): such keys
\* are enumerated first, in ascending numeric order
IsArrayIndex(key) ==
    /\ key # <<>>
    /\ DigitPrefix(key) = key
    /\ (Len(key) > 1 => key[1] # "0")
    /\ Len(key) <= 9

\* the properties of obj whose keys are array indices, in ascending order
RECURSIVE IndexEntries(_)
IndexEntries(obj) ==
    LET idx == {i \in 1..Len(obj) : IsArrayIndex(obj[i].key)}
    IN  IF idx = {} THEN <<>>
        ELSE LET m == CHOOSE i \in idx :
                          \A j \in idx : DigitsValue(obj[i].key) <= DigitsValue(obj[j].key)
             IN  <<obj[m]>> \o
                 IndexEntries(SubSeq(obj, 1, m - 1) \o SubSeq(obj, m + 1, Len(obj)))

\* the properties of obj whose keys are not array indices, in creation order
RECURSIVE StringEntries(_)
StringEntries(obj) ==
    IF obj = <<>> THEN <<>>
    ELSE IF IsArrayIndex(Head(obj).key) THEN StringEntries(Tail(obj))
    ELSE <<Head(obj)>> \o StringEntries(Tail(obj))

\* Object.entries(obj)
ObjectEntries(obj) == IndexEntries(obj) \o StringEntries(obj)

\* lines 140-145: one { name, totalPoints } per entry
totalRewardsArray(rewards) ==
    LET entries == ObjectEntries(totalRewardPoints(rewards, Len(rewards)))
    IN  [i \in 1..Len(entries) |->
            [name        |-> entries[i].key,
             totalPoints |-> [num |-> entries[i].num, v |-> entries[i].v]]]

\* calculateUserRewards(transactions, start, end): a TypeError when a date
\* is not a string (transaction.date.split), the two arrays otherwise
calculateUserRewards(txs, st, en) ==
    IF \E i \in 1..Len(txs) : txs[i].date.t # "string"
    THEN [threw |-> TRUE, userRewards |-> <<>>, totalRewards |-> <<>>,
          included |-> <<>>]
    ELSE LET r == Rewards(txs, Len(txs), st, en)
         IN  [threw        |-> FALSE,
              userRewards  |-> r.acc,
              totalRewards |-> totalRewardsArray(r.acc),
              included     |-> r.included]

(***************************************************************************)
(* The identity of records. Every record is an object; refs gives, for the *)
(* transactions handed to the exported calculateUserRewards and for the    *)
(* two arrays it returned last, the identity of each element, and the      *)
(* identities of the elements of the results of earlier calls.             *)
(***************************************************************************)
\* the records of the argument: one object per transaction
ArgumentRefs(txs) ==
    [transactions |-> [i \in 1..Len(txs) |-> i],
     userRewards  |-> <<>>,
     totalRewards |-> <<>>,
     earlier      |-> {},
     next         |-> Len(txs) + 1]

\* a variant that hands out the objects it made first again
AllocateAgain(next, n) == [k \in 1..n |-> k]

\* n object literals evaluated one after the other: n new objects
Allocate(next, n) == [k \in 1..n |-> next + k - 1]

\* the identities after a call that returned r: one new object for each
\* push of line 118 and one for each entry mapped in lines 140-145; the
\* argument is the array it was
CallRefs(rf, r) ==
    LET rewards == Allocate(rf.next, Len(r.userRewards))
        totals  == Allocate(rf.next + Len(rewards), Len(r.totalRewards))
    IN  [transactions |-> rf.transactions,
         userRewards  |-> rewards,
         totalRewards |-> totals,
         earlier      |-> rf.earlier
                             \cup {rf.userRewards[k] : k \in 1..Len(rf.userRewards)}
                             \cup {rf.totalRewards[k] : k \in 1..Len(rf.totalRewards)},
         next         |-> rf.next + Len(rewards) + Len(totals)]

\* the error state of App when nothing failed: null
NoError == "null"

\* no fetch under way
NoResponse == [kind |-> "none", status |-> 0, data |-> <<>>]

(***************************************************************************)
(* Inputs.                                                                 *)
(***************************************************************************)
\* numeric prices: every whole dollar up to MaxDollar with 0, 50 or 99 cents
Prices == {NumberPrice(d * 100 + c) : d \in 0..MaxDollar, c \in {0, 50, 99}}

\* the strings of at most MaxStrLen characters over a digit, a letter and a
\* blank
PriceStrings == UNION {[1..n -> {"7", "a", " "}] : n \in 0..MaxStrLen}

\* what else a price field can hold: NaN, a missing field, an object or
\* array, null, a boolean, a string
OtherPrices ==
    {OtherPrice(tag) : tag \in {"NaN", "undefined", "object", "null", "false", "true"}}
    \cup {StringPrice(str) : str \in PriceStrings}

\* a date string in the feed's 'YYYY-MM-DD' format
Pad2(n) == <<Digits[((n \div 10) % 10) + 1], Digits[(n % 10) + 1]>>

IsoDate(y, m, d) ==
    StringDate(Pad2(y \div 100) \o Pad2(y % 100) \o <<"-">> \o Pad2(m) \o <<"-">> \o Pad2(d))

Alice == <<"A", "l", "i", "c", "e">>

Bob == <<"B", "o", "b">>

Transaction(id, nm, dt, pts) ==
    [customerId |-> id, name |-> nm, date |-> dt, rewardPoints |-> pts]

\* the calendar days of the range-filter specification, around the ends of
\* months and years
FilterDays ==
    {<<2023, 12, 31>>, <<2024, 1, 1>>, <<2024, 1, 15>>, <<2024, 1, 31>>,
     <<2024, 2, 1>>, <<2024, 2, 29>>, <<2024, 3, 1>>, <<2025, 1, 15>>}

\* date strings that name no calendar day: a day and a month that do not
\* exist, a string without digits, a month that is no number
MalformedDates ==
    {IsoDate(2024, 2, 30), IsoDate(2024, 13, 5),
     StringDate(<<"b", "a", "d">>),
     StringDate(<<"2", "0", "2", "4", "-", "x", "x", "-", "0", "5">>)}

FilterDates == {IsoDate(ymd[1], ymd[2], ymd[3]) : ymd \in FilterDays} \cup MalformedDates

\* the days a date picker is set to
PickerDays ==
    {<<2023, 12, 31>>, <<2024, 1, 1>>, <<2024, 1, 5>>, <<2024, 1, 10>>,
     <<2024, 1, 15>>, <<2024, 1, 31>>, <<2024, 3, 1>>}

\* the Dates a picker hands over: each day at midnight and in the afternoon
PickerDates == {DateAt(ymd[1], ymd[2], ymd[3], h) : ymd \in PickerDays, h \in {0, 13}}

FilterTransactions == {Transaction(1, Alice, dt, 5) : dt \in FilterDates}

\* the purchases of the grouping specification, each a date and the price
\* paid: two days of one month and a day of the next with prices in the
\* three tiers, and a purchase whose date is no date
GroupPurchases ==
    {<<IsoDate(2024, 1, 5), NumberPrice(5500)>>,
     <<IsoDate(2024, 1, 20), NumberPrice(4999)>>,
     <<IsoDate(2024, 2, 1), NumberPrice(12000)>>,
     <<StringDate(<<"b", "a", "d">>), NumberPrice(6000)>>}

\* the transactions of the grouping specification: two customers and two
\* names for each purchase, with the points App attaches (App.js line 97)
GroupTransactions ==
    {Transaction(id, nm, p[1], calculateRewardPoints(p[2])) :
        id \in {1, 2}, nm \in {Alice, Bob}, p \in GroupPurchases}

GroupRanges ==
    {<<NullDate, NullDate>>,
     <<DateAt(2024, 1, 10, 13), NullDate>>,
     <<NullDate, DateAt(2024, 1, 31, 13)>>,
     <<DateAt(2024, 1, 5, 0), DateAt(2024, 1, 5, 13)>>}

SeqsUpTo(S, n) == UNION {[1..k -> S] : k \in 0..n}

(***************************************************************************)
(* Specifications.                                                         *)
(***************************************************************************)
IdlePoints ==
    /\ price = NumberPrice(0)
    /\ price2 = NumberPrice(0)
    /\ points = 0
    /\ points2 = 0

\* the two tables as their useState calls leave them: TransactionTable.js
\* lines 106-120 and UserRewardsTable.js lines 50-53
IdleTables ==
    /\ order = "asc"
    /\ orderBy = "customerId"
    /\ currentPage = 1
    /\ rewardsOrder = "asc"
    /\ rewardsOrderBy = "year"
    /\ page = 0
    /\ rowsPerPage = 5
    /\ filteredUserRewards = <<>>

\* App and TransactionTable before anything is rendered
IdleApp ==
    /\ loading = FALSE
    /\ error = NoError
    /\ pending = FALSE
    /\ response = NoResponse
    /\ filteredTransactions = <<>>
    /\ IdleTables

IdleRewards ==
    /\ transactions = <<>>
    /\ start = NullDate
    /\ end = NullDate
    /\ userRewards = <<>>
    /\ totalRewards = <<>>
    /\ included = <<>>
    /\ threw = FALSE
    /\ refs = ArgumentRefs(transactions)
    /\ IdleApp

\* the point calculator applied to two prices
InitPoints ==
    /\ pc = "ready"
    /\ price \in Prices \cup OtherPrices
    /\ price2 \in Prices
    /\ points = 0
    /\ points2 = 0
    /\ IdleRewards

CalcPoints ==
    /\ pc = "ready"
    /\ pc' = "done"
    /\ points' = calculateRewardPoints(price)
    /\ points2' = calculateRewardPoints(price2)
    /\ UNCHANGED <<price, price2, transactions, start, end, userRewards,
                   totalRewards, included, threw,
                   refs, loading, error, pending, response, filteredTransactions, tables>>

NextPoints == CalcPoints

SpecPoints == InitPoints /\ [][NextPoints]_vars

\* a call of the aggregator on a list of transactions and a range, which
\* takes the caller from one position to the next
Call(from, to) ==
    /\ pc = from
    /\ pc' = to
    /\ \E r \in {calculateUserRewards(transactions, start, end)} :
           /\ userRewards' = r.userRewards
           /\ totalRewards' = r.totalRewards
           /\ included' = r.included
           /\ threw' = r.threw
           /\ refs' = CallRefs(refs, r)
    /\ UNCHANGED <<price, price2, points, points2, transactions, start, end,
                   loading, error, pending, response, filteredTransactions, tables>>

Calculate == Call("ready", "done")

NextRewards == Calculate

InitFilter ==
    /\ pc = "ready"
    /\ IdlePoints
    /\ transactions \in SeqsUpTo(FilterTransactions, MaxFilterTx)
    /\ start \in {NullDate} \cup PickerDates
    /\ end \in {NullDate} \cup PickerDates
    /\ userRewards = <<>>
    /\ totalRewards = <<>>
    /\ included = <<>>
    /\ threw = FALSE
    /\ refs = ArgumentRefs(transactions)
    /\ IdleApp

SpecFilter == InitFilter /\ [][NextRewards]_vars

InitGroup ==
    /\ pc = "ready"
    /\ IdlePoints
    /\ transactions \in SeqsUpTo(GroupTransactions, MaxTx)
    /\ \E r \in GroupRanges : start = r[1] /\ end = r[2]
    /\ userRewards = <<>>
    /\ totalRewards = <<>>
    /\ included = <<>>
    /\ threw = FALSE
    /\ refs = ArgumentRefs(transactions)
    /\ IdleApp

SpecGroup == InitGroup /\ [][NextRewards]_vars

(***************************************************************************)
(* Properties of the point calculator (SpecPoints).                        *)
(***************************************************************************)
\* the tiers of the specification on a whole-dollar amount
TierPoints(p) ==
    IF p > 100 THEN (p - 100) * 2 + 50
    ELSE IF p > 50 THEN p - 50
    ELSE 0

\* C1: for every numeric price >= 0, the points returned are the tiered
\* points of floor(price): (p - 100) * 2 + 50 above 100, p - 50 from 51 to
\* 100, 0 up to 50; f(0) = 0, f(50) = 0, f(50.99) = 0, f(51) = 1,
\* f(100) = 50, f(100.5) = 50, f(101) = 52, f(120) = 90.
C1_TierPoints ==
    (pc = "done" /\ price.t = "number") =>
        /\ points = TierPoints(price.c \div 100)
        /\ (price.c = 0 => points = 0)
        /\ (price.c = 5000 => points = 0)
        /\ (price.c = 5099 => points = 0)
        /\ (price.c = 5100 => points = 1)
        /\ (price.c = 10000 => points = 50)
        /\ (price.c = 10050 => points = 50)
        /\ (price.c = 10100 => points = 52)
        /\ (price.c = 12000 => points = 90)

\* a price of 100.50 has been given 50 points
C1_Witness == pc = "done" /\ price = NumberPrice(10050) /\ points = 50

\* C2: the calculator is monotone: a price that is not smaller earns points
\* that are not fewer.
C2_Monotone ==
    (pc = "done" /\ price.t = "number" /\ price.c <= price2.c) => points <= points2

\* two prices on either side of the 100 dollar tier have been compared
C2_Witness ==
    /\ pc = "done"
    /\ price = NumberPrice(10099) /\ price2 = NumberPrice(10100)
    /\ points = 50 /\ points2 = 52

\* a value that is no valid number: NaN, a missing price, a plain object, or
\* a string that holds a letter or two runs of characters parted by blanks
NotANumber(p) ==
    \/ p.t \in {"NaN", "undefined", "object"}
    \/ /\ p.t = "string"
       /\ \/ \E i \in 1..Len(p.s) : p.s[i] = "a"
          \/ \E i, j, k \in 1..Len(p.s) :
                i < j /\ j < k /\ p.s[i] # " " /\ p.s[j] = " " /\ p.s[k] # " "

\* C3: for every input that is no valid number the calculator returns 0
\* (and it returns: no path of it throws).
C3_InvalidPriceIsZero == (pc = "done" /\ NotANumber(price)) => points = 0

\* a string that starts like a price of 77 and is no number has been given 0
C3_Witness ==
    pc = "done" /\ price = StringPrice(<<"7", "7", "a">>) /\ points = 0

(***************************************************************************)
(* Properties of the range filter (SpecFilter).                            *)
(* The reference below knows each well-formed date string and each picker  *)
(* Date by the calendar day it was made from, and compares days as         *)
(* (year, month, day) triples.                                             *)
(***************************************************************************)
GroupDays == {<<2024, 1, 5>>, <<2024, 1, 20>>, <<2024, 2, 1>>}

Calendar ==
    {[date |-> IsoDate(ymd[1], ymd[2], ymd[3]), ymd |-> ymd] :
        ymd \in FilterDays \cup GroupDays}

Pickers ==
    {[obj |-> DateAt(ymd[1], ymd[2], ymd[3], h), ymd |-> ymd] :
        ymd \in PickerDays, h \in {0, 13}}

IsCalendarDate(tx) == \E e \in Calendar : e.date = tx.date

DayOf(tx) == (CHOOSE e \in Calendar : e.date = tx.date).ymd

PickedDay(d) == (CHOOSE e \in Pickers : e.obj = d).ymd

LexLe(a, b) ==
    \/ a[1] < b[1]
    \/ (a[1] = b[1] /\ a[2] < b[2])
    \/ (a[1] = b[1] /\ a[2] = b[2] /\ a[3] <= b[3])

OnOrAfterStart(tx) == start = NullDate \/ LexLe(PickedDay(start), DayOf(tx))

OnOrBeforeEnd(tx) == end = NullDate \/ LexLe(DayOf(tx), PickedDay(end))

\* the sum of the rewardPoints of the transactions whose positions are in S
RECURSIVE SumPoints(_)
SumPoints(S) ==
    IF S = {} THEN 0
    ELSE LET i == CHOOSE j \in S : TRUE
         IN  transactions[i].rewardPoints + SumPoints(S \ {i})

\* the sum of the totalPoints of the monthly records whose positions are in S
RECURSIVE SumMonthly(_)
SumMonthly(S) ==
    IF S = {} THEN 0
    ELSE LET i == CHOOSE j \in S : TRUE
         IN  userRewards[i].totalPoints + SumMonthly(S \ {i})

\* C4: a transaction with a valid calendar date contributes to the result
\* if and only if its day is on or after the day of start (or start is
\* absent) and on or before the day of end (or end is absent), whatever the
\* time of day of start and end; the points in the result are those of the
\* transactions that passed.
C4_RangeInclusive ==
    pc = "done" =>
        /\ \A i \in 1..Len(transactions) :
              IsCalendarDate(transactions[i]) =>
                  (included[i] <=> (/\ OnOrAfterStart(transactions[i])
                                    /\ OnOrBeforeEnd(transactions[i])))
        /\ SumMonthly(1..Len(userRewards))
              = SumPoints({i \in 1..Len(transactions) : included[i]})

\* a transaction dated on the day of a start set to the afternoon is in, and
\* one dated the day after end is out
C4_Witness ==
    /\ pc = "done"
    /\ start = DateAt(2024, 1, 15, 13)
    /\ end = DateAt(2024, 1, 31, 0)
    /\ transactions = <<Transaction(1, Alice, IsoDate(2024, 1, 15), 5),
                        Transaction(1, Alice, IsoDate(2024, 2, 1), 5)>>
    /\ included = <<TRUE, FALSE>>
    /\ Len(userRewards) = 1

\* C5: with start and end both absent every transaction is included,
\* whatever its date string; with one of them absent only the other bound
\* decides.
C5_Unbounded ==
    pc = "done" =>
        /\ (start = NullDate /\ end = NullDate) =>
              /\ \A i \in 1..Len(transactions) : included[i]
              /\ SumMonthly(1..Len(userRewards)) = SumPoints(1..Len(transactions))
        /\ start = NullDate =>
              \A i \in 1..Len(transactions) :
                  IsCalendarDate(transactions[i]) =>
                      (included[i] <=> OnOrBeforeEnd(transactions[i]))
        /\ end = NullDate =>
              \A i \in 1..Len(transactions) :
                  IsCalendarDate(transactions[i]) =>
                      (included[i] <=> OnOrAfterStart(transactions[i]))

\* without a range, transactions more than a year apart are both counted
C5_Witness ==
    /\ pc = "done"
    /\ start = NullDate
    /\ end = NullDate
    /\ transactions = <<Transaction(1, Alice, IsoDate(2023, 12, 31), 5),
                        Transaction(1, Alice, IsoDate(2025, 1, 15), 5)>>
    /\ included = <<TRUE, TRUE>>
    /\ Len(userRewards) = 2

\* C6: userRewards holds at most one record per (customerId, year, month):
\* no two records share all three values.
C6_OneRecordPerKey ==
    pc = "done" =>
        \A i, j \in 1..Len(userRewards) :
            i # j => ~(/\ userRewards[i].customerId = userRewards[j].customerId
                       /\ userRewards[i].year = userRewards[j].year
                       /\ userRewards[i].month = userRewards[j].month)

\* C9: every monthly record has a month in 1..12 and carries the calendar
\* month and year of the transactions summed into it.
C9_CalendarMonth ==
    pc = "done" =>
        \A k \in 1..Len(userRewards) :
            /\ ~userRewards[k].month.nan
            /\ userRewards[k].month.v \in 1..12
            /\ ~userRewards[k].year.nan
            /\ \E i \in 1..Len(transactions) :
                  /\ included[i]
                  /\ IsCalendarDate(transactions[i])
                  /\ transactions[i].customerId = userRewards[k].customerId
                  /\ DayOf(transactions[i])[1] = userRewards[k].year.v
                  /\ DayOf(transactions[i])[2] = userRewards[k].month.v

(***************************************************************************)
(* Properties of the grouping (SpecGroup).                                 *)
(***************************************************************************)
\* the transactions of customer c that fall in month m of year y and are
\* within the range
KeyTransactions(c, y, m) ==
    {i \in 1..Len(transactions) :
        /\ transactions[i].customerId = c
        /\ IsCalendarDate(transactions[i])
        /\ DayOf(transactions[i])[1] = y
        /\ DayOf(transactions[i])[2] = m
        /\ OnOrAfterStart(transactions[i])
        /\ OnOrBeforeEnd(transactions[i])}

\* the monthly records of customer c for month m of year y
KeyRecords(c, y, m) ==
    {k \in 1..Len(userRewards) :
        /\ userRewards[k].customerId = c
        /\ userRewards[k].year = Num(y)
        /\ userRewards[k].month = Num(m)}

\* the monthly records that carry a year and a month
DatedRecords ==
    {k \in 1..Len(userRewards) : ~userRewards[k].year.nan /\ ~userRewards[k].month.nan}

\* C7: for every (customerId, year, month) the totalPoints of its monthly
\* record is the sum of the rewardPoints of exactly the transactions of that
\* customer that fall in that calendar month and pass the range filter, and
\* a key with no such transaction has no record.
C7_MonthlySum ==
    pc = "done" =>
        /\ \A c \in {1, 2} : \A e \in Calendar :
              LET S == KeyTransactions(c, e.ymd[1], e.ymd[2])
                  R == KeyRecords(c, e.ymd[1], e.ymd[2])
              IN  IF S = {} THEN R = {}
                  ELSE \E k \in R : R = {k} /\ userRewards[k].totalPoints = SumPoints(S)
        /\ \A k \in DatedRecords :
              KeyTransactions(userRewards[k].customerId, userRewards[k].year.v,
                              userRewards[k].month.v) # {}

\* two January purchases of a customer are summed, the one before start is
\* left out, and February has its own record
C7_Witness ==
    /\ pc = "done"
    /\ start = NullDate
    /\ end = NullDate
    /\ Len(transactions) = 3
    /\ \A i \in 1..2 : transactions[i] = Transaction(1, Alice, IsoDate(2024, 1, 5), 5)
    /\ transactions[3] = Transaction(1, Alice, IsoDate(2024, 2, 1), 90)
    /\ Len(userRewards) = 2
    /\ userRewards[1].totalPoints = 10
    /\ userRewards[2].totalPoints = 90

Min(S) == CHOOSE i \in S : \A j \in S : i <= j

\* C8: the name of a monthly record is the name of the first passing
\* transaction (in input order) of its (customerId, year, month), whatever
\* names the later transactions of that key carry.
C8_FirstName ==
    pc = "done" =>
        \A k \in DatedRecords :
            LET S == KeyTransactions(userRewards[k].customerId, userRewards[k].year.v,
                                     userRewards[k].month.v)
            IN  S # {} /\ userRewards[k].name = transactions[Min(S)].name

\* the first January purchase is before start, the second gives the record
\* its name and the third, under another name, does not change it
C8_Witness ==
    /\ pc = "done"
    /\ start = DateAt(2024, 1, 10, 13)
    /\ transactions = <<Transaction(1, Bob, IsoDate(2024, 1, 5), 5),
                        Transaction(1, Alice, IsoDate(2024, 1, 20), 0),
                        Transaction(1, Bob, IsoDate(2024, 1, 20), 0)>>
    /\ Len(userRewards) = 1
    /\ userRewards[1].name = Alice

\* the customers that have a passing transaction, dated on a calendar day,
\* under name nm
CustomersWithTransaction(nm) ==
    {transactions[i].customerId :
        i \in {j \in 1..Len(transactions) :
                  /\ included[j]
                  /\ IsCalendarDate(transactions[j])
                  /\ transactions[j].name = nm}}

\* the customers that have a monthly record under name nm
CustomersWithRecord(nm) ==
    {userRewards[k].customerId :
        k \in {j \in 1..Len(userRewards) : userRewards[j].name = nm}}

\* totalRewards has a single entry for nm, and it holds the sum of the
\* monthly totals recorded under nm
MergedTotal(nm) ==
    \E t \in 1..Len(totalRewards) :
        /\ \A u \in 1..Len(totalRewards) : totalRewards[u].name = nm <=> u = t
        /\ totalRewards[t].totalPoints.num
        /\ totalRewards[t].totalPoints.v
              = SumMonthly({k \in 1..Len(userRewards) : userRewards[k].name = nm})

MaxNameTx == 3

ToStringName == <<"t", "o", "S", "t", "r", "i", "n", "g">>

Ten == <<"1", "0">>

Two == <<"2">>

\* the names a customer record may carry: an ordinary name, the names of two
\* properties every object inherits, and two names that read as integers
Names == {Alice, ToStringName, ProtoKey, Ten, Two}

\* a purchase in January and one in February, with the points App attaches
NamePurchases ==
    {<<IsoDate(2024, 1, 5), NumberPrice(5500)>>,
     <<IsoDate(2024, 2, 1), NumberPrice(12000)>>}

NameTransactions ==
    {Transaction(id, nm, p[1], calculateRewardPoints(p[2])) :
        id \in {1, 2}, nm \in Names, p \in NamePurchases}

InitNames ==
    /\ pc = "ready"
    /\ IdlePoints
    /\ transactions \in SeqsUpTo(NameTransactions, MaxNameTx)
    /\ start = NullDate
    /\ end = NullDate
    /\ userRewards = <<>>
    /\ totalRewards = <<>>
    /\ included = <<>>
    /\ threw = FALSE
    /\ refs = ArgumentRefs(transactions)
    /\ IdleApp

SpecNames == InitNames /\ [][NextRewards]_vars

\* the names of the monthly records
RecordNames == {userRewards[k].name : k \in 1..Len(userRewards)}

\* C11: totalRewards has exactly one entry per distinct name of userRewards
\* and no other entry, and the totalPoints of the entry of a name is the sum
\* of the totalPoints of the monthly records with that name, whatever string
\* the name is.
C11_TotalPerName ==
    pc = "done" =>
        /\ \A nm \in RecordNames : MergedTotal(nm)
        /\ \A t \in 1..Len(totalRewards) : totalRewards[t].name \in RecordNames

\* the position of the first monthly record with name nm
FirstRecord(nm) == Min({k \in 1..Len(userRewards) : userRewards[k].name = nm})

\* C12: the entries of totalRewards come in the order in which their names
\* first appear in userRewards, whatever the names are (names that read as
\* integers included).
C12_FirstInsertionOrder ==
    pc = "done" =>
        \A t, u \in 1..Len(totalRewards) :
            (/\ t < u
             /\ totalRewards[t].name \in RecordNames
             /\ totalRewards[u].name \in RecordNames)
                => FirstRecord(totalRewards[t].name) < FirstRecord(totalRewards[u].name)

(***************************************************************************)
(* Names that vary within one customer (SpecGroup).                        *)
(***************************************************************************)
\* the names of the passing transactions of customer c that are dated on a
\* calendar day
PassingNames(c) ==
    {transactions[i].name :
        i \in {j \in 1..Len(transactions) :
                  /\ transactions[j].customerId = c
                  /\ included[j]
                  /\ IsCalendarDate(transactions[j])}}

\* totalRewards has exactly one row named nm
OneRow(nm) ==
    \E t \in 1..Len(totalRewards) :
        \A u \in 1..Len(totalRewards) : totalRewards[u].name = nm <=> u = t

UnparsableDates ==
    {StringDate(<<"b", "a", "d">>),
     StringDate(<<"2", "0", "2", "4", "-", "x", "x", "-", "0", "5">>)}

Parsable(tx) == tx.date \notin UnparsableDates

\* C14: whatever the range, a transaction whose date string is unparsable
\* does not take part in the aggregation, and userRewards and totalRewards
\* are those of the input without such transactions.
C14_UnparsableExcluded ==
    pc = "done" =>
        /\ \A i \in 1..Len(transactions) : ~Parsable(transactions[i]) => ~included[i]
        /\ LET r == calculateUserRewards(SelectSeq(transactions, Parsable), start, end)
           IN  userRewards = r.userRewards /\ totalRewards = r.totalRewards

\* the longest list of transactions of the specification of missing dates
MaxMissingTx == 3

\* the date fields of that specification: two well-formed strings, a missing
\* field, null and a number
MissingDates == {IsoDate(2024, 1, 5), IsoDate(2024, 2, 1), MissingDate, NullField, NumberDate}

MissingTransactions == {Transaction(1, Alice, dt, 5) : dt \in MissingDates}

InitMissing ==
    /\ pc = "ready"
    /\ IdlePoints
    /\ transactions \in SeqsUpTo(MissingTransactions, MaxMissingTx)
    /\ start \in {NullDate, DateAt(2024, 1, 10, 13)}
    /\ end \in {NullDate, DateAt(2024, 1, 31, 13)}
    /\ userRewards = <<>>
    /\ totalRewards = <<>>
    /\ included = <<>>
    /\ threw = FALSE
    /\ refs = ArgumentRefs(transactions)
    /\ IdleApp

SpecMissing == InitMissing /\ [][NextRewards]_vars

HasStringDate(tx) == tx.date.t = "string"

\* C15: calculateUserRewards raises nothing, whatever the date fields of the
\* records hold, and its result is that of the input without the records
\* whose date is missing or not a string.
C15_NeverRaises ==
    pc = "done" =>
        /\ ~threw
        /\ LET r == calculateUserRewards(SelectSeq(transactions, HasStringDate), start, end)
           IN  userRewards = r.userRewards /\ totalRewards = r.totalRewards

(***************************************************************************)
(* Two calls in a row on the same arguments (SpecTwice).                   *)
(***************************************************************************)
\* the longest list of transactions of this specification
MaxTwiceTx == 2

\* the second call, by a caller that kept the first result
CalculateAgain == Call("done", "again")

NextTwice == Calculate \/ CalculateAgain

InitTwice ==
    /\ pc = "ready"
    /\ IdlePoints
    /\ transactions \in SeqsUpTo(GroupTransactions, MaxTwiceTx)
    /\ \E r \in GroupRanges : start = r[1] /\ end = r[2]
    /\ userRewards = <<>>
    /\ totalRewards = <<>>
    /\ included = <<>>
    /\ threw = FALSE
    /\ refs = ArgumentRefs(transactions)
    /\ IdleApp

SpecTwice == InitTwice /\ [][NextTwice]_vars

Range(seq) == {seq[k] : k \in 1..Len(seq)}

\* the records of the two returned arrays are objects of their own: none
\* is an element of the argument, of the other array or of an earlier
\* result, and no object occurs twice
FreshResult ==
    LET result == refs.userRewards \o refs.totalRewards
    IN  /\ \A k \in 1..Len(result) :
               /\ result[k] \notin Range(refs.transactions)
               /\ result[k] \notin refs.earlier
        /\ \A j, k \in 1..Len(result) : j # k => result[j] # result[k]

MaxFeedTx == 3

\* a - b on numbers
JsMinus(a, b) == IF a.nan \/ b.nan THEN NaN ELSE Num(a.v - b.v)

\* the number of days of month m (1..12) of year y
DaysInMonth(y, m) ==
    IF m = 12 THEN 31 ELSE DaysFromCivil(y, m + 1) - DaysFromCivil(y, m)

\* whether str has the form YYYY-MM-DD and names a calendar day
IsIsoDay(str) ==
    /\ Len(str) = 10
    /\ \A i \in 1..10 : IF i \in {5, 8} THEN str[i] = "-" ELSE IsDigit(str[i])
    /\ LET m == DigitsValue(SubSeq(str, 6, 7))
           d == DigitsValue(SubSeq(str, 9, 10))
       IN  /\ m \in 1..12
           /\ d >= 1
           /\ d <= DaysInMonth(DigitsValue(SubSeq(str, 1, 4)), m)

\* new Date(date) for the date field of a record, where the local clock is
\* tz hours ahead of UTC: a string YYYY-MM-DD is midnight UTC of that day,
\* and a missing field or a string that is no date is an Invalid Date
DateFromString(dt, tz) ==
    IF dt.t = "string" /\ IsIsoDay(dt.s)
    THEN [k |-> "date",
          t |-> (DaysFromCivil(DigitsValue(SubSeq(dt.s, 1, 4)),
                               DigitsValue(SubSeq(dt.s, 6, 7)))
                 + DigitsValue(SubSeq(dt.s, 9, 10)) - 1) * 24 + tz]
    ELSE InvalidDate

\* the comparator of lines 84-92: the first of the differences of the
\* years, the months and the days that is neither 0 nor NaN, and else the
\* last one, which sort takes as 0 when it is NaN
CompareByDate(a, b, tz) ==
    LET dateA == DateFromString(a.date, tz)
        dateB == DateFromString(b.date, tz)
        years  == JsMinus(getFullYear(dateA), getFullYear(dateB))
        months == JsMinus(getMonth(dateA), getMonth(dateB))
        days   == JsMinus(getDate(dateA), getDate(dateB))
    IN  IF ~years.nan /\ years.v # 0 THEN years.v
        ELSE IF ~months.nan /\ months.v # 0 THEN months.v
        ELSE IF days.nan THEN 0 ELSE days.v

\* Array.prototype.sort on an array of n elements, as the engine of the
\* build (V8) runs it for arrays of fewer than 64 elements; cmp[i, j] is
\* what the comparator returns for the elements at the positions i and j of
\* the array, with NaN taken as 0, and the result lists the positions in
\* their new order. First the length of the run that the array begins with:
\* strictly descending when the second element is below the first, and
\* non-descending otherwise.
RunLength(n, cmp) ==
    IF n < 2 THEN n
    ELSE LET isDescending == cmp[2, 1] < 0
             Continues(k) == IF isDescending THEN cmp[k, k - 1] < 0
                             ELSE cmp[k, k - 1] >= 0
             runs == {r \in 2..n : \A k \in 3..r : Continues(k)}
         IN  CHOOSE r \in runs : \A q \in runs : q <= r

\* the run in non-descending order: reversed when it is descending
MakeRun(n, cmp) ==
    LET r == RunLength(n, cmp)
    IN  [i \in 1..n |-> IF n >= 2 /\ cmp[2, 1] < 0 /\ i <= r THEN r + 1 - i ELSE i]

\* the binary search for the place of the pivot in a[left..right-1]
RECURSIVE BinaryInsertionPoint(_, _, _, _, _)
BinaryInsertionPoint(a, pivot, left, right, cmp) ==
    IF left >= right THEN left
    ELSE LET mid == left + ((right - left) \div 2)
         IN  IF cmp[pivot, a[mid]] < 0
             THEN BinaryInsertionPoint(a, pivot, left, mid, cmp)
             ELSE BinaryInsertionPoint(a, pivot, mid + 1, right, cmp)

\* the elements from position from on inserted one by one into the sorted
\* a[1..from-1]
RECURSIVE BinaryInsertionSort(_, _, _)
BinaryInsertionSort(a, from, cmp) ==
    IF from > Len(a) THEN a
    ELSE LET at == BinaryInsertionPoint(a, a[from], 1, from, cmp)
         IN  BinaryInsertionSort(SubSeq(a, 1, at - 1) \o <<a[from]>>
                                     \o SubSeq(a, at, from - 1)
                                     \o SubSeq(a, from + 1, Len(a)),
                                 from + 1, cmp)

ArraySort(n, cmp) == BinaryInsertionSort(MakeRun(n, cmp), RunLength(n, cmp) + 1, cmp)

\* data.sort(...) of lines 84-92 over the first n records
SortByDate(data, n, tz) ==
    LET cmp    == [i \in 1..n, j \in 1..n |-> CompareByDate(data[i], data[j], tz)]
        sorted == ArraySort(n, cmp)
    IN  [i \in 1..n |-> data[sorted[i]]]

\* lines 94-99: every record with the points of its price
transactionsWithPoints(sortedTransactions) ==
    [i \in 1..Len(sortedTransactions) |->
        [customerId   |-> sortedTransactions[i].customerId,
         name         |-> sortedTransactions[i].name,
         date         |-> sortedTransactions[i].date,
         price        |-> sortedTransactions[i].price,
         rewardPoints |-> calculateRewardPoints(sortedTransactions[i].price)]]

\* the message of the SyntaxError of response.json()
SyntaxErrorMessage == "Unexpected token < in JSON at position 0"

\* fetchTransactions() of api.js for the answer the fetch gets: the data, or
\* the error it rejects with
fetchTransactions(resp) ==
    CASE resp.kind = "network" ->
             [rejected |-> TRUE, message |-> "Failed to fetch", data |-> <<>>]
      [] resp.kind = "status" ->
             [rejected |-> TRUE,
              message  |-> "HTTP error! status: " \o ToString(resp.status),
              data     |-> <<>>]
      [] resp.kind = "unparsable" ->
             [rejected |-> TRUE, message |-> SyntaxErrorMessage, data |-> <<>>]
      [] OTHER ->
             [rejected |-> FALSE, message |-> "", data |-> resp.data]

\* a variant that always shows the text of the source
CatchMessageFixed(message) == "Failed to fetch transactions"

\* line 103: err.message || "Failed to fetch transactions"
CatchMessage(message) ==
    IF message # "" THEN message ELSE "Failed to fetch transactions"

\* a variant of App that goes on to the tables whatever error holds
ViewTablesOnly == IF loading THEN "loading" ELSE "tables"

\* what App returns, lines 205-246
View ==
    IF loading THEN "loading"
    ELSE IF error # NoError /\ error # "" THEN "error"
    ELSE "tables"

\* the records of the feed, not in the order of their dates, one of them
\* with a date that is no date
FeedRecords ==
    {[customerId |-> 1, name |-> Alice, date |-> IsoDate(2024, 2, 1), price |-> NumberPrice(12000)],
     [customerId |-> 1, name |-> Alice, date |-> IsoDate(2024, 1, 5), price |-> NumberPrice(5500)],
     [customerId |-> 2, name |-> Bob, date |-> IsoDate(2024, 1, 20), price |-> NumberPrice(7550)],
     [customerId |-> 2, name |-> Bob, date |-> IsoDate(2024, 1, 5), price |-> NumberPrice(4999)],
     [customerId |-> 1, name |-> Alice, date |-> StringDate(<<"b", "a", "d">>),
      price |-> NumberPrice(6000)]}

\* what the fetch can be answered with: the feed, a status that is not ok,
\* a body that is no JSON, or no answer at all
Responses ==
    {[kind |-> "ok", status |-> 200, data |-> feed] : feed \in SeqsUpTo(FeedRecords, MaxFeedTx)}
    \cup {[kind |-> "status", status |-> st, data |-> <<>>] : st \in {404, 500}}
    \cup {[kind |-> "unparsable", status |-> 200, data |-> <<>>],
          [kind |-> "network", status |-> 0, data |-> <<>>]}

\* the hours the local clock is ahead of UTC
Timezones == {-5, 0, 2}

\* what a date picker hands to onChange: a Date, or null when it is cleared
AppDates == {NullDate, DateAt(2024, 1, 20, 13), DateAt(2024, 1, 31, 0)}

\* a variant of the effect that does not depend on endDate
EffectDepsNoEnd == {"startDate", "transactions"}

\* line 119: the dependencies of the effect that recalculates
EffectDeps == {"startDate", "endDate", "transactions"}

\* App after its first render, with the fetch of the mount effect under way
InitApp ==
    /\ pc = "fetching"
    /\ IdlePoints
    /\ transactions = <<>>
    /\ start = NullDate
    /\ end = NullDate
    /\ userRewards = <<>>
    /\ totalRewards = <<>>
    /\ included = <<>>
    /\ threw = FALSE
    /\ refs = ArgumentRefs(transactions)
    /\ loading = TRUE
    /\ error = NoError
    /\ pending = FALSE
    /\ response \in Responses
    /\ filteredTransactions = <<>>
    /\ IdleTables

\* getTransactions of lines 79-107 from the answer of the fetch on: the
\* sorted feed with its points becomes the state and is aggregated with the
\* dates of the first render (null), or the error is kept; loading ends
getTransactions ==
    /\ pc = "fetching"
    /\ pc' = "mounted"
    /\ loading' = FALSE
    /\ \E outcome \in {fetchTransactions(response)} :
          IF outcome.rejected
          THEN /\ error' = CatchMessage(outcome.message)
               /\ UNCHANGED <<transactions, userRewards, totalRewards, included,
                              threw, pending>>
          ELSE \E tz \in Timezones :
               \E txs \in {transactionsWithPoints(
                               SortByDate(outcome.data, Len(outcome.data), tz))} :
               \E r \in {calculateUserRewards(txs, NullDate, NullDate)} :
                   /\ transactions' = txs
                   /\ pending' = ("transactions" \in EffectDeps)
                   /\ threw' = r.threw
                   /\ IF r.threw
                      THEN /\ error' = CatchMessage("transaction.date is undefined")
                           /\ UNCHANGED <<userRewards, totalRewards, included>>
                      ELSE /\ error' = error
                           /\ userRewards' = r.userRewards
                           /\ totalRewards' = r.totalRewards
                           /\ included' = r.included
    /\ UNCHANGED <<price, price2, points, points2, start, end, refs, response,
                   filteredTransactions, tables>>

\* onChange of the first date picker, lines 219-226
setStartDate(date) ==
    /\ pc = "mounted"
    /\ View = "tables"
    /\ start' = date
    /\ pending' = (pending \/ "startDate" \in EffectDeps)
    /\ UNCHANGED <<pc, price, price2, points, points2, transactions, end, userRewards,
                   totalRewards, included, threw, refs, loading, error, response,
                   filteredTransactions, tables>>

\* onChange of the second date picker, lines 228-235
setEndDate(date) ==
    /\ pc = "mounted"
    /\ View = "tables"
    /\ end' = date
    /\ pending' = (pending \/ "endDate" \in EffectDeps)
    /\ UNCHANGED <<pc, price, price2, points, points2, transactions, start, userRewards,
                   totalRewards, included, threw, refs, loading, error, response,
                   filteredTransactions, tables>>

\* the effect of lines 115-119
RecalculateEffect ==
    /\ pc = "mounted"
    /\ pending
    /\ pending' = FALSE
    /\ IF Len(transactions) > 0
       THEN \E r \in {calculateUserRewards(transactions, start, end)} :
                /\ threw' = r.threw
                /\ IF r.threw
                   THEN UNCHANGED <<userRewards, totalRewards, included>>
                   ELSE /\ userRewards' = r.userRewards
                        /\ totalRewards' = r.totalRewards
                        /\ included' = r.included
       ELSE UNCHANGED <<userRewards, totalRewards, included, threw>>
    /\ UNCHANGED <<pc, price, price2, points, points2, transactions, start, end, refs,
                   loading, error, response, filteredTransactions, tables>>

NextApp ==
    \/ getTransactions
    \/ \E date \in AppDates : setStartDate(date)
    \/ \E date \in AppDates : setEndDate(date)
    \/ RecalculateEffect

\* the steps of RecalculateEffect, told by what they do to pending
EffectRuns == pc = "mounted" /\ pending /\ pending' = FALSE

\* React runs an effect that is scheduled
SpecApp == InitApp /\ [][NextApp]_vars /\ WF_pending(EffectRuns)

\* userRewards and totalRewards are the aggregation of the transactions of
\* the state under the dates of the state
Current ==
    LET r == calculateUserRewards(transactions, start, end)
    IN  userRewards = r.userRewards /\ totalRewards = r.totalRewards

\* C18: whenever App has no recalculation scheduled, userRewards and
\* totalRewards are the aggregation of the current transactions under the
\* current startDate and endDate, and after every change of transactions,
\* startDate or endDate the scheduled recalculation leads to such a state.
C18_RecalculatedOnChange ==
    /\ [](pc = "mounted" /\ ~pending => Current)
    /\ [](pending => <>(~pending /\ Current))

\* after the fetch, an end and a start were picked; the start leaves one of
\* the two monthly records
C18_Witness ==
    /\ pc = "mounted"
    /\ ~pending
    /\ start = DateAt(2024, 1, 20, 13)
    /\ end = DateAt(2024, 1, 31, 0)
    /\ Len(transactions) = 2
    /\ transactions[1].date = IsoDate(2024, 1, 5)
    /\ transactions[2].date = IsoDate(2024, 1, 20)
    /\ Len(userRewards) = 1
    /\ userRewards[1].customerId = 2

\* C19: when the answer to the fetch is a status that is not ok or a body
\* that cannot be parsed, fetchTransactions rejects with the error, and App
\* ends with error set to the message of that error, loading false and no
\* transactions, and shows the error view instead of the tables.
C19_FetchFailureShown ==
    (pc = "mounted" /\ response.kind \in {"status", "unparsable"}) =>
        /\ fetchTransactions(response).rejected
        /\ fetchTransactions(response).message # ""
        /\ error = fetchTransactions(response).message
        /\ ~loading
        /\ transactions = <<>>
        /\ View = "error"

\* the feed answers 404
C19_Witness ==
    /\ pc = "mounted"
    /\ response.kind = "status"
    /\ response.status = 404
    /\ error = "HTTP error! status: 404"
    /\ ~loading
    /\ View = "error"

\* how often the record x occurs in the array
Occurrences(array, x) == Cardinality({i \in 1..Len(array) : array[i] = x})

\* a record of the state without its rewardPoints
Fetched(tx) ==
    [customerId |-> tx.customerId, name |-> tx.name, date |-> tx.date,
     price |-> tx.price]

\* C25: after a fetch that succeeds, the transactions of App are the
\* fetched records, none added, dropped or doubled and every field as it
\* was fetched, each with rewardPoints = calculateRewardPoints(price), in
\* non-decreasing order of the (year, month, day) of their dates.
C25_SortedFeed ==
    (pc = "mounted" /\ response.kind = "ok") =>
        /\ Len(transactions) = Len(response.data)
        /\ \A i \in 1..Len(transactions) :
              /\ Occurrences([k \in 1..Len(transactions) |-> Fetched(transactions[k])],
                             Fetched(transactions[i]))
                    = Occurrences(response.data, Fetched(transactions[i]))
              /\ transactions[i].rewardPoints
                    = calculateRewardPoints(transactions[i].price)
        /\ \A i, j \in 1..Len(transactions) :
              (i < j /\ IsCalendarDate(transactions[i]) /\ IsCalendarDate(transactions[j]))
                  => LexLe(DayOf(transactions[i]), DayOf(transactions[j]))

\* C27: App starts in the loading state; once the fetch has completed, with
\* the data or with an error, loading is false and never true again, and
\* from then on App is in exactly one of the error state (error set, no
\* tables) and the loaded state (error null, the tables); startDate and
\* endDate cannot be picked while loading is true.
C27_LoadingEnds ==
    /\ [](pc = "fetching" => loading /\ View = "loading")
    /\ [](pc = "mounted" => [](~loading))
    /\ [](~loading => \/ (error # NoError /\ View = "error")
                      \/ (error = NoError /\ View = "tables"))
    /\ [][(start' # start \/ end' # end) => (~loading /\ View = "tables")]_vars

\* the feed has arrived and a start was picked
C27_Witness ==
    /\ pc = "mounted"
    /\ ~loading
    /\ error = NoError
    /\ View = "tables"
    /\ response.kind = "ok"
    /\ start = DateAt(2024, 1, 20, 13)

(***************************************************************************)
(* TransactionTable: the filter of the transactions it lists (SpecTable).  *)
(***************************************************************************)
\* the longest list of transactions handed to the table
MaxTableTx == 2

\* a >= b and a <= b on Dates: a comparison of their time values, false as
\* soon as one of them is an Invalid Date
DateGe(a, b) == a.k = "date" /\ b.k = "date" /\ a.t >= b.t

DateLe(a, b) == a.k = "date" /\ b.k = "date" /\ a.t <= b.t

\* the callback of the filter of lines 140-160 for one transaction
TableKeeps(transaction, startDate, endDate) ==
    IF transaction.date.t # "string" \/ transaction.date.s = <<>> THEN FALSE
    ELSE LET transactionDate == ParseDate(transaction).transactionDate
         IN  IF startDate.k = "null" /\ endDate.k = "null" THEN TRUE
             ELSE /\ (startDate.k = "null" \/ DateGe(transactionDate, startDate))
                  /\ (endDate.k = "null" \/ DateLe(transactionDate, endDate))

\* transactions.filter(...) of lines 140-160
TableFilter(txs, startDate, endDate) ==
    LET Keeps(transaction) == TableKeeps(transaction, startDate, endDate)
    IN  SelectSeq(txs, Keeps)

\* the dates of the transactions handed to the table
TableDates ==
    {IsoDate(2024, 1, 15), IsoDate(2024, 1, 31), IsoDate(2024, 2, 1),
     StringDate(<<"b", "a", "d">>)}

TableTransactions == {Transaction(1, Alice, dt, 5) : dt \in TableDates}

InitTable ==
    /\ pc = "ready"
    /\ IdlePoints
    /\ transactions \in SeqsUpTo(TableTransactions, MaxTableTx)
    /\ start \in {NullDate} \cup PickerDates
    /\ end \in {NullDate} \cup PickerDates
    /\ userRewards = <<>>
    /\ totalRewards = <<>>
    /\ included = <<>>
    /\ threw = FALSE
    /\ refs = ArgumentRefs(transactions)
    /\ IdleApp

\* TransactionTable rendered with the transactions and the range that the
\* aggregator was called with
RenderTransactionTable ==
    /\ pc = "done"
    /\ pc' = "rendered"
    /\ filteredTransactions' = TableFilter(transactions, start, end)
    /\ UNCHANGED <<price, price2, points, points2, transactions, start, end,
                   userRewards, totalRewards, included, threw, refs, loading, error,
                   pending, response, tables>>

NextTable == Calculate \/ RenderTransactionTable

SpecTable == InitTable /\ [][NextTable]_vars

\* the transactions that the aggregator counted, in their order
RECURSIVE CountedTransactions(_)
CountedTransactions(n) ==
    IF n = 0 THEN <<>>
    ELSE IF included[n] THEN Append(CountedTransactions(n - 1), transactions[n])
    ELSE CountedTransactions(n - 1)

\* C20: whatever time of day startDate and endDate carry, TransactionTable
\* lists the transactions dated on or after the day of startDate and on or
\* before the day of endDate and no other: exactly the transactions that
\* the aggregator counts for the same range.
C20_TableListsCounted ==
    pc = "rendered" =>
        /\ filteredTransactions = CountedTransactions(Len(transactions))
        /\ \A i \in 1..Len(transactions) :
              IsCalendarDate(transactions[i]) =>
                  (TableKeeps(transactions[i], start, end)
                      <=> (OnOrAfterStart(transactions[i]) /\ OnOrBeforeEnd(transactions[i])))

(***************************************************************************)
(* UserRewardsTable: the filter, the sort and the pages of the monthly     *)
(* rewards (SpecRewardsTable).                                             *)
(***************************************************************************)
\* the longest list of monthly rewards handed to the table
MaxRewards == 6

\* a variant of setHours that leaves the time of day
setHoursKept(d) == d

\* d.setHours(0, 0, 0, 0): the Date at the midnight of its local day
setHours(d) == IF d.k = "date" THEN [k |-> "date", t |-> d.t - (d.t % 24)] ELSE d

\* the callback of the filter of lines 84-102 for one reward
RewardKept(reward, startDate, endDate) ==
    LET rewardDate == setHours(NewDate(reward.year, JsAdd(reward.month, -1), Num(1)))
        st == IF startDate.k # "null" THEN CopyDate(setHours(startDate)) ELSE NullDate
        en == IF endDate.k # "null" THEN CopyDate(setHours(endDate)) ELSE NullDate
    IN  /\ (st.k = "null" \/ DateGe(rewardDate, st))
        /\ (en.k = "null" \/ DateLe(rewardDate, en))

\* userRewards.filter(...) of lines 84-102
UserRewardsFilter(rewards, startDate, endDate) ==
    LET Kept(reward) == RewardKept(reward, startDate, endDate)
    IN  SelectSeq(rewards, Kept)

\* lines 87-88: the callback calls setHours on the Date of the prop itself,
\* once for every reward of the list
DateAfterFilter(date, rewards) ==
    IF Len(rewards) > 0 /\ date.k # "null" THEN setHours(date) ELSE date

\* a[orderBy] as a number, for the columns that are sorted by
Column(a, by) == IF by \in {"year", "month"} THEN a[by] ELSE Num(a[by])

descendingComparator(a, b, by) ==
    IF JsLt(Column(b, by), Column(a, by)) THEN -1
    ELSE IF JsGt(Column(b, by), Column(a, by)) THEN 1
    ELSE 0

\* the comparator that getComparator(ord, by) returns, applied to a and b
getComparator(ord, by, a, b) ==
    IF ord = "desc" THEN descendingComparator(a, b, by)
    ELSE 0 - descendingComparator(a, b, by)

\* lines 105-107: the copy of the filtered rewards, sorted
sortedUserRewards ==
    LET n      == Len(filteredUserRewards)
        cmp    == [i \in 1..n, j \in 1..n |->
                      getComparator(rewardsOrder, rewardsOrderBy,
                                    filteredUserRewards[i], filteredUserRewards[j])]
        sorted == ArraySort(n, cmp)
    IN  [i \in 1..n |-> filteredUserRewards[sorted[i]]]

\* array.slice(from, to) for 0 <= from <= to
Slice(array, from, to) ==
    IF from >= Len(array) THEN <<>>
    ELSE SubSeq(array, from + 1, IF to < Len(array) THEN to ELSE Len(array))

\* lines 109-114: the rows of page p
displayedUserRewards(p) ==
    Slice(sortedUserRewards, p * rowsPerPage, p * rowsPerPage + rowsPerPage)

\* the last page that TablePagination of lines 168-176 offers
LastPage ==
    IF Len(filteredUserRewards) = 0 THEN 0
    ELSE (Len(filteredUserRewards) - 1) \div rowsPerPage

\* a render of UserRewardsTable in which the filter of useMemo runs
RenderRewards(from, to) ==
    /\ pc = from
    /\ pc' = to
    /\ filteredUserRewards' = UserRewardsFilter(userRewards, start, end)
    /\ start' = DateAfterFilter(start, userRewards)
    /\ end' = DateAfterFilter(end, userRewards)
    /\ UNCHANGED <<price, price2, points, points2, transactions, userRewards,
                   totalRewards, included, threw, refs, loading, error, pending,
                   response, filteredTransactions, order, orderBy, currentPage,
                   rewardsOrder, rewardsOrderBy, page, rowsPerPage>>

\* the first render of a table that is given its props
MountUserRewardsTable == RenderRewards("ready", "shown")

\* lines 58-63, on a click on the header of the year or the month
handleRequestSortRewards(property) ==
    /\ pc = "shown"
    /\ LET isAsc == rewardsOrderBy = property /\ rewardsOrder = "asc"
       IN  rewardsOrder' = IF isAsc THEN "desc" ELSE "asc"
    /\ rewardsOrderBy' = property
    /\ UNCHANGED <<pc, price, price2, points, points2, transactions, start, end,
                   userRewards, totalRewards, included, threw, refs, loading,
                   error, pending, response, filteredTransactions, order, orderBy,
                   currentPage, page, rowsPerPage, filteredUserRewards>>

\* lines 68-71, on a click on one of the two arrows of TablePagination
handleChangePage(newPage) ==
    /\ pc = "shown"
    /\ newPage \in {page - 1, page + 1}
    /\ newPage >= 0
    /\ newPage <= LastPage
    /\ page' = newPage
    /\ UNCHANGED <<pc, price, price2, points, points2, transactions, start, end,
                   userRewards, totalRewards, included, threw, refs, loading,
                   error, pending, response, filteredTransactions, order, orderBy,
                   currentPage, rewardsOrder, rewardsOrderBy, rowsPerPage,
                   filteredUserRewards>>

\* line 172: the numbers of rows that can be chosen
rowsPerPageOptions == {5, 10, 25}

\* lines 76-81
handleChangeRowsPerPage(value) ==
    /\ pc = "shown"
    /\ rowsPerPage' = value
    /\ page' = 0
    /\ UNCHANGED <<pc, price, price2, points, points2, transactions, start, end,
                   userRewards, totalRewards, included, threw, refs, loading,
                   error, pending, response, filteredTransactions, order, orderBy,
                   currentPage, rewardsOrder, rewardsOrderBy, filteredUserRewards>>

\* monthly rewards as App hands them over: of January and of March 2024,
\* and the record of a transaction whose date is no date
RewardRecords ==
    {[customerId |-> 1, name |-> Alice, month |-> Num(1), year |-> Num(2024),
      totalPoints |-> 15],
     [customerId |-> 2, name |-> Bob, month |-> Num(3), year |-> Num(2024),
      totalPoints |-> 7],
     [customerId |-> 1, name |-> Alice, month |-> NaN, year |-> NaN,
      totalPoints |-> 10]}

\* the range handed to the table
RewardsTableDates == {NullDate, DateAt(2024, 1, 1, 13), DateAt(2024, 1, 15, 0)}

InitRewardsTable ==
    /\ pc = "ready"
    /\ IdlePoints
    /\ transactions = <<>>
    /\ start \in RewardsTableDates
    /\ end \in RewardsTableDates
    /\ userRewards \in SeqsUpTo(RewardRecords, MaxRewards)
    /\ totalRewards = <<>>
    /\ included = <<>>
    /\ threw = FALSE
    /\ refs = ArgumentRefs(transactions)
    /\ IdleApp

NextRewardsTable ==
    \/ MountUserRewardsTable
    \/ \E property \in {"year", "month"} : handleRequestSortRewards(property)
    \/ \E newPage \in 0..MaxRewards : handleChangePage(newPage)
    \/ \E value \in rowsPerPageOptions : handleChangeRowsPerPage(value)

SpecRewardsTable == InitRewardsTable /\ [][NextRewardsTable]_vars

\* the first day of the month of a reward, and whether it has one
HasMonth(reward) == ~reward.year.nan /\ ~reward.month.nan

FirstDay(reward) == <<reward.year.v, reward.month.v, 1>>

\* the rewards that are on some page of the table
OnSomePage == UNION {Range(displayedUserRewards(p)) : p \in 0..LastPage}

\* C21: UserRewardsTable keeps a monthly reward exactly when startDate is
\* absent or the first day of the reward's month is on or after the day of
\* startDate, and endDate is absent or that first day is on or before the
\* day of endDate; with both dates absent every reward handed over is kept
\* and is on some page, and an empty list gives no row.
C21_RewardsKept ==
    pc = "shown" =>
        /\ \A i \in 1..Len(userRewards) :
              HasMonth(userRewards[i]) =>
                  ((\E k \in 1..Len(filteredUserRewards) :
                        filteredUserRewards[k] = userRewards[i])
                   <=> /\ (start = NullDate
                              \/ LexLe(PickedDay(start), FirstDay(userRewards[i])))
                       /\ (end = NullDate
                              \/ LexLe(FirstDay(userRewards[i]), PickedDay(end))))
        /\ (start = NullDate /\ end = NullDate) =>
              /\ filteredUserRewards = userRewards
              /\ Range(userRewards) \subseteq OnSomePage
        /\ userRewards = <<>> => displayedUserRewards(page) = <<>>
        /\ OnSomePage = Range(filteredUserRewards)

\* six rewards of January, handed over with a start in the afternoon of the
\* first of January, are all kept, and the second page shows the sixth
C21_Witness ==
    /\ pc = "shown"
    /\ Len(userRewards) = 6
    /\ \A i \in 1..6 : userRewards[i].month = Num(1)
    /\ start = DateAt(2024, 1, 1, 0)
    /\ end = NullDate
    /\ Len(filteredUserRewards) = 6
    /\ page = 1
    /\ Len(displayedUserRewards(page)) = 1

(***************************************************************************)
(* The tables as App renders them, lines 238-245: TransactionTable first   *)
(* and UserRewardsTable after it, with the startDate and endDate of App    *)
(* (SpecTables).                                                           *)
(***************************************************************************)
\* TransactionTable.js line 112
itemsPerPage == 5

\* stableSort(filteredTransactions, getComparator(order, orderBy)) of line
\* 168: the comparator of lines 59-65 falls back on the positions
sortedTransactions ==
    LET n      == Len(filteredTransactions)
        cmp    == [i \in 1..n, j \in 1..n |->
                      LET ord == getComparator(order, orderBy,
                                               filteredTransactions[i],
                                               filteredTransactions[j])
                      IN  IF ord # 0 THEN ord ELSE i - j]
        sorted == ArraySort(n, cmp)
    IN  [i \in 1..n |-> filteredTransactions[sorted[i]]]

\* line 180: Math.ceil(totalItems / itemsPerPage)
totalPages == (Len(sortedTransactions) + itemsPerPage - 1) \div itemsPerPage

\* lines 186-196: the rows of the current page
currentTransactions ==
    Slice(sortedTransactions, (currentPage - 1) * itemsPerPage,
          (currentPage - 1) * itemsPerPage + itemsPerPage)

\* UserRewardsTable rendered after TransactionTable, with new props
RenderUserRewardsTable == RenderRewards("rendered", "shown")

\* TransactionTable.js lines 128-133, on a click on the header of a column,
\* and the render that the new state brings: the filter of lines 140-160
\* runs again on the props
handleRequestSort(property) ==
    /\ pc = "shown"
    /\ LET isAsc == orderBy = property /\ order = "asc"
       IN  order' = IF isAsc THEN "desc" ELSE "asc"
    /\ orderBy' = property
    /\ filteredTransactions' = TableFilter(transactions, start, end)
    /\ UNCHANGED <<pc, price, price2, points, points2, transactions, start, end,
                   userRewards, totalRewards, included, threw, refs, loading,
                   error, pending, response, currentPage, rewardsOrder,
                   rewardsOrderBy, page, rowsPerPage, filteredUserRewards>>

NextTables ==
    \/ Calculate
    \/ RenderTransactionTable
    \/ RenderUserRewardsTable
    \/ \E property \in {"customerId", "rewardPoints"} : handleRequestSort(property)
    \/ \E property \in {"year", "month"} : handleRequestSortRewards(property)

SpecTables == InitTable /\ [][NextTables]_vars

\* the sum of the totalPoints of the rows of a list of monthly rewards
RECURSIVE SumRows(_)
SumRows(rows) ==
    IF rows = <<>> THEN 0 ELSE Head(rows).totalPoints + SumRows(Tail(rows))

\* the sum of the totalPoints of the entries of totalRewards
RECURSIVE SumTotals(_)
SumTotals(n) ==
    IF n = 0 THEN 0 ELSE totalRewards[n].totalPoints.v + SumTotals(n - 1)

\* the points on the pages of the monthly table, all pages together
RECURSIVE SumPages(_)
SumPages(p) ==
    IF p < 0 THEN 0 ELSE SumRows(displayedUserRewards(p)) + SumPages(p - 1)

\* C22: for every range, every monthly reward that App computes for the
\* range is kept by the filter of UserRewardsTable under the same range, so
\* that the points of the monthly table, over all its pages, add up to the
\* points of the totals.
C22_TablesAgree ==
    pc = "shown" =>
        /\ filteredUserRewards = userRewards
        /\ SumPages(LastPage) = SumTotals(Len(totalRewards))

(***************************************************************************)
(* The order of the monthly records and the totals of the names that a     *)
(* month is recorded under (SpecOrder): the aggregator applied to the      *)
(* transactions of the grouping specification that earn points, with and   *)
(* without a start.                                                        *)
(***************************************************************************)
\* the longest list of transactions
MaxOrderTx == 3

OrderRanges == {<<NullDate, NullDate>>, <<DateAt(2024, 1, 10, 13), NullDate>>}

InitOrder ==
    /\ pc = "ready"
    /\ IdlePoints
    /\ transactions \in SeqsUpTo({tx \in GroupTransactions : tx.rewardPoints > 0},
                                 MaxOrderTx)
    /\ \E r \in OrderRanges : start = r[1] /\ end = r[2]
    /\ userRewards = <<>>
    /\ totalRewards = <<>>
    /\ included = <<>>
    /\ threw = FALSE
    /\ refs = ArgumentRefs(transactions)
    /\ IdleApp

SpecOrder == InitOrder /\ [][NextRewards]_vars

\* the key of a monthly record
KeyOf(reward) == <<reward.customerId, reward.year, reward.month>>

\* the accumulator of the reducer after the first n transactions
AccAfter(n) == Rewards(transactions, n, start, end).acc

\* the first transaction of the key of the monthly record k that passes
FirstOfRecord(k) ==
    Min(KeyTransactions(userRewards[k].customerId, userRewards[k].year.v,
                        userRewards[k].month.v))

\* C23: the monthly records are appended in one pass from left to right: a
\* transaction leaves the records that are there at their places and adds
\* at most one record, at the end, so that userRewards lists the keys in
\* the order of the first passing transaction of each key.
C23_AppendOrder ==
    pc = "done" =>
        /\ \A n \in 1..Len(transactions) :
              /\ Len(AccAfter(n)) \in {Len(AccAfter(n - 1)), Len(AccAfter(n - 1)) + 1}
              /\ \A k \in 1..Len(AccAfter(n - 1)) :
                    KeyOf(AccAfter(n)[k]) = KeyOf(AccAfter(n - 1)[k])
        /\ AccAfter(Len(transactions)) = userRewards
        /\ \A k, l \in DatedRecords :
              k < l => FirstOfRecord(k) < FirstOfRecord(l)

\* customer 1 in February, customer 2 in February, and customer 1 in
\* February again: the record of customer 1 stays the first
C23_Witness ==
    /\ pc = "done"
    /\ Len(transactions) = 3
    /\ transactions[1].customerId = 1
    /\ transactions[2].customerId = 2
    /\ transactions[3].customerId = 1
    /\ \A i \in 1..3 : transactions[i].date = IsoDate(2024, 2, 1)
    /\ start = DateAt(2024, 1, 10, 13)
    /\ Len(userRewards) = 2
    /\ userRewards[1].customerId = 1
    /\ userRewards[2].customerId = 2

\* whether transaction i passes the range filter; one whose date is no date
\* has no day to compare and passes when the reducer counted it
Passes(i) ==
    IF IsCalendarDate(transactions[i])
    THEN OnOrAfterStart(transactions[i]) /\ OnOrBeforeEnd(transactions[i])
    ELSE included[i]

\* the first passing transaction of the (customerId, year, month) group of
\* the passing transaction i; a transaction without a date is a group of
\* its own
GroupFirst(i) ==
    IF IsCalendarDate(transactions[i])
    THEN Min(KeyTransactions(transactions[i].customerId, DayOf(transactions[i])[1],
                             DayOf(transactions[i])[2]))
    ELSE i

\* the passing transactions whose group has nm as its first-seen name
UnderName(nm) ==
    {i \in 1..Len(transactions) : Passes(i) /\ transactions[GroupFirst(i)].name = nm}

\* the entries of totalRewards for the name nm
EntriesOf(nm) == {t \in 1..Len(totalRewards) : totalRewards[t].name = nm}

\* the total of the name nm is the sum of the passing transactions of the
\* groups that have nm as their first-seen name
TotalUnder(nm) ==
    IF UnderName(nm) = {} THEN EntriesOf(nm) = {}
    ELSE \E t \in EntriesOf(nm) :
            /\ EntriesOf(nm) = {t}
            /\ totalRewards[t].totalPoints.num
            /\ totalRewards[t].totalPoints.v = SumPoints(UnderName(nm))

\* C24: the totals are reduced from the monthly records: a passing
\* transaction whose name differs from the first-seen name of its
\* (customerId, year, month) group adds its rewardPoints to the total of
\* that first-seen name and nothing to the total of its own name.
C24_TotalsOverMonthly ==
    pc = "done" =>
        \A i \in 1..Len(transactions) :
            (Passes(i) /\ transactions[GroupFirst(i)].name # transactions[i].name) =>
                /\ TotalUnder(transactions[GroupFirst(i)].name)
                /\ TotalUnder(transactions[i].name)

\* the transactions with a calendar date within the range
PassingTransactions ==
    {i \in 1..Len(transactions) :
        /\ IsCalendarDate(transactions[i])
        /\ OnOrAfterStart(transactions[i])
        /\ OnOrBeforeEnd(transactions[i])}

\* C30: the points are conserved through both reductions: the totalPoints
\* of totalRewards add up to the totalPoints of userRewards, which add up
\* to the rewardPoints of the transactions that pass the range filter.
C30_PointsConserved ==
    pc = "done" =>
        /\ \A t \in 1..Len(totalRewards) : totalRewards[t].totalPoints.num
        /\ SumTotals(Len(totalRewards)) = SumMonthly(1..Len(userRewards))
        /\ SumMonthly(1..Len(userRewards)) = SumPoints(PassingTransactions)

(***************************************************************************)
(* The sort requests of the two tables (SpecTables).                       *)
(***************************************************************************)
\* what handleRequestSort(property) makes of order and orderBy
Toggled(ord, by, property) == IF by = property /\ ord = "asc" THEN "desc" ELSE "asc"

\* C26: in each table handleRequestSort(property) sets order to 'desc'
\* exactly when property is the orderBy column and order is 'asc', and to
\* 'asc' otherwise, sets orderBy to property, and leaves the page and the
\* set of filtered rows of the table as they were.
C26_SortRequest ==
    [][(pc = "shown" /\ pc' = "shown") =>
          \/ \E property \in {"customerId", "rewardPoints"} :
                /\ order' = Toggled(order, orderBy, property)
                /\ orderBy' = property
                /\ currentPage' = currentPage
                /\ Range(filteredTransactions') = Range(filteredTransactions)
                /\ UNCHANGED <<rewardsOrder, rewardsOrderBy, page, filteredUserRewards>>
          \/ \E property \in {"year", "month"} :
                /\ rewardsOrder' = Toggled(rewardsOrder, rewardsOrderBy, property)
                /\ rewardsOrderBy' = property
                /\ page' = page
                /\ Range(filteredUserRewards') = Range(filteredUserRewards)
                /\ UNCHANGED <<order, orderBy, currentPage, filteredTransactions>>]_vars

\* C29: a render of UserRewardsTable leaves the startDate and endDate it
\* is given as they were, so that what TransactionTable lists for the range
\* is the same before and after UserRewardsTable has rendered.
C29_DatesUnchanged ==
    [][(pc = "rendered" /\ pc' = "shown") =>
          /\ start' = start
          /\ end' = end
          /\ TableFilter(transactions, start', end') = filteredTransactions]_vars

(***************************************************************************)
(* The pages of TransactionTable while the range changes (SpecPages): App  *)
(* with its tables rendered, the buttons Previous and Next, the headers    *)
(* of the columns and the two date pickers.                                *)
(***************************************************************************)
\* the longest list of transactions
MaxPageTx == 6

\* the transactions of App's state: purchases of January and of February
PageTransactions ==
    {Transaction(1, Alice, IsoDate(2024, 1, 15), 5),
     Transaction(1, Alice, IsoDate(2024, 2, 1), 90)}

\* what the pickers hand over
PageDates == {NullDate, DateAt(2024, 1, 31, 13)}

InitPages ==
    /\ pc = "ready"
    /\ IdlePoints
    /\ transactions \in SeqsUpTo(PageTransactions, MaxPageTx)
    /\ start = NullDate
    /\ end = NullDate
    /\ userRewards = <<>>
    /\ totalRewards = <<>>
    /\ included = <<>>
    /\ threw = FALSE
    /\ refs = ArgumentRefs(transactions)
    /\ IdleApp

\* TransactionTable.js lines 203-206, on a click on Next, which lines
\* 266-276 show when there is more than one page and enable on every page
\* but the last
handleNextPage ==
    /\ pc = "shown"
    /\ totalPages > 1
    /\ currentPage # totalPages
    /\ currentPage' = currentPage + 1
    /\ UNCHANGED <<pc, price, price2, points, points2, transactions, start, end,
                   userRewards, totalRewards, included, threw, refs, loading,
                   error, pending, response, filteredTransactions, order, orderBy,
                   rewardsOrder, rewardsOrderBy, page, rowsPerPage,
                   filteredUserRewards>>

\* lines 212-215, on a click on Previous, enabled on every page but page 1
handlePreviousPage ==
    /\ pc = "shown"
    /\ totalPages > 1
    /\ currentPage # 1
    /\ currentPage' = currentPage - 1
    /\ UNCHANGED <<pc, price, price2, points, points2, transactions, start, end,
                   userRewards, totalRewards, included, threw, refs, loading,
                   error, pending, response, filteredTransactions, order, orderBy,
                   rewardsOrder, rewardsOrderBy, page, rowsPerPage,
                   filteredUserRewards>>

\* onChange of a date picker of App.js lines 219-235 with the tables on the
\* screen. App renders with the new range: TransactionTable filters, and
\* UserRewardsTable filters the monthly rewards it has, which moves the
\* dates to midnight. Then the effect of lines 115-119 recalculates when
\* there are transactions, and App renders again with the new rewards.
pickDate(picker, date) ==
    /\ pc = "shown"
    /\ \E picked \in {[startDate |-> IF picker = "start" THEN date ELSE start,
                       endDate   |-> IF picker = "end" THEN date ELSE end]} :
       \E first \in {[startDate |-> DateAfterFilter(picked.startDate, userRewards),
                      endDate   |-> DateAfterFilter(picked.endDate, userRewards)]} :
          IF Len(transactions) > 0
          THEN \E r \in {calculateUserRewards(transactions, first.startDate,
                                              first.endDate)} :
                  /\ userRewards' = r.userRewards
                  /\ totalRewards' = r.totalRewards
                  /\ included' = r.included
                  /\ threw' = r.threw
                  /\ filteredTransactions'
                        = TableFilter(transactions, first.startDate, first.endDate)
                  /\ filteredUserRewards'
                        = UserRewardsFilter(r.userRewards, first.startDate,
                                            first.endDate)
                  /\ start' = DateAfterFilter(first.startDate, r.userRewards)
                  /\ end' = DateAfterFilter(first.endDate, r.userRewards)
          ELSE /\ filteredTransactions'
                     = TableFilter(transactions, picked.startDate, picked.endDate)
               /\ filteredUserRewards'
                     = UserRewardsFilter(userRewards, picked.startDate, picked.endDate)
               /\ start' = first.startDate
               /\ end' = first.endDate
               /\ UNCHANGED <<userRewards, totalRewards, included, threw>>
    /\ UNCHANGED <<pc, price, price2, points, points2, transactions, refs, loading,
                   error, pending, response, order, orderBy, currentPage,
                   rewardsOrder, rewardsOrderBy, page, rowsPerPage>>

NextPages ==
    \/ Calculate
    \/ RenderTransactionTable
    \/ RenderUserRewardsTable
    \/ handleNextPage
    \/ handlePreviousPage
    \/ \E property \in {"customerId", "rewardPoints"} : handleRequestSort(property)
    \/ \E picker \in {"start", "end"} : \E date \in PageDates : pickDate(picker, date)

SpecPages == InitPages /\ [][NextPages]_vars

\* C28: in every state that clicks on Next and Previous, sort requests and
\* changes of the range lead to, 1 <= currentPage <= max(1, totalPages), so
\* that the page shown holds a transaction whenever a transaction passes
\* the filter.
C28_PageInRange ==
    pc = "shown" =>
        /\ currentPage >= 1
        /\ currentPage <= (IF totalPages > 1 THEN totalPages ELSE 1)
        /\ Len(filteredTransactions) >= 1 => Len(currentTransactions) >= 1

====
